---- MODULE Spec2Model ----
(***************************************************************************)
(* External merge sort (extsort): Sorter buffers records, spills sorted,   *)
(* duplicate-compacted sections to a temporary file, and Iterator merges   *)
(* the sections through a heap with a one-record lookahead.                *)
(***************************************************************************)
EXTENDS Integers, Sequences, FiniteSets, TLC

\* ------------------------------------------------------------------ bounds
MaxPuts == 3
MaxSorts == 2

\* ------------------------------------------------------------------ inputs
\* Keys and values are byte strings.  The records a caller may put: one of
\* length 0, two with the same key and different values, and two whose keys
\* differ but share their first byte.
Rec(key, value) == [key |-> key, val |-> value]

Records == {Rec(<<>>, <<>>), Rec(<<>>, <<5>>), Rec(<<1>>, <<>>), Rec(<<1, 0>>, <<>>)}
BufferSizes == {1, 3}
CompareModes == {"bytes", "firstByte"}
DedupeModes == {"nil", "bytesEqual"}

NoErr == <<>>

VARIABLES opt, buf, tw, it, fault, puts, itPuts, out, plan, last, nSorts, nFails

vars == <<opt, buf, tw, it, fault, puts, itPuts, out, plan, last, nSorts, nFails>>

\* ------------------------------------------------------------------ entry
fetchEntry == [data |-> <<>>, keyLen |-> 0]

copyEntry(dst, src) == [dst EXCEPT !.data = SubSeq(dst.data, 1, 0) \o src.data,
                                   !.keyLen = src.keyLen]

Key(e) == SubSeq(e.data, 1, e.keyLen)

Val(e) == SubSeq(e.data, e.keyLen + 1, Len(e.data))

ValLen(e) == Len(e.data) - e.keyLen

\* ---------------------------------------------------------------- Options
RECURSIVE bytesCompare(_, _)
bytesCompare(a, b) ==
    IF a = <<>> /\ b = <<>> THEN 0
    ELSE IF a = <<>> THEN -1
    ELSE IF b = <<>> THEN 1
    ELSE IF Head(a) < Head(b) THEN -1
    ELSE IF Head(a) > Head(b) THEN 1
    ELSE bytesCompare(Tail(a), Tail(b))

firstByte(a) == IF a = <<>> THEN -1 ELSE Head(a)

firstByteCompare(a, b) ==
    IF firstByte(a) < firstByte(b) THEN -1
    ELSE IF firstByte(a) > firstByte(b) THEN 1
    ELSE 0

\* opt.Compare
compare(a, b) ==
    IF opt.Compare = "bytes" THEN bytesCompare(a, b) ELSE firstByteCompare(a, b)

\* opt.dedup(): the configured predicate, or one that never reports equality
dedup(a, b) == IF opt.Dedupe = "nil" THEN FALSE ELSE a = b

\* -------------------------------------------------------------- memBuffer
memBuffer_Append(b, key, value) ==
    [ents |-> Append(b.ents, [data |-> key \o value, keyLen |-> Len(key)]),
     size |-> b.size + Len(key) + Len(value)]

memBuffer_ByteSize(b) == b.size

memBuffer_Reset(b) == [ents |-> <<>>, size |-> 0]

memBuffer_Free(b) == memBuffer_Reset(b)

IsSortedEnts(s) ==
    \A i \in 1..(Len(s) - 1) : compare(Key(s[i]), Key(s[i + 1])) <= 0

Perms(n) == {p \in [1..n -> 1..n] : \A i, j \in 1..n : p[i] = p[j] => i = j}

\* opt.Sort(buf): every arrangement of the held records that is ordered by
\* the comparator; records whose keys compare equal may land in any order.
optSort(ents) ==
    {s \in {[i \in 1..Len(ents) |-> ents[p[i]]] : p \in Perms(Len(ents))} :
        IsSortedEnts(s)}

\* ------------------------------------------------------------- tempWriter
newTempWriter == [created |-> TRUE, file |-> <<>>, offsets |-> <<>>]

NoTempWriter == [created |-> FALSE, file |-> <<>>, offsets |-> <<>>]

\* one framed record: explicit key length and value length, then the bytes
tempWriter_Encode(t, ent) ==
    [t EXCEPT !.file = Append(t.file,
        [keyLen |-> ent.keyLen, valLen |-> ValLen(ent), bytes |-> ent.data])]

\* commits the end offset of the current section
tempWriter_Flush(t) == [t EXCEPT !.offsets = Append(t.offsets, Len(t.file))]

\* ----------------------------------------------------------------- Sorter
\* A flush calls the writer in this order: newTempWriter when no file exists
\* yet, Encode once per record it keeps, Flush.  wfail is the number of the
\* call that returns an error (0: none); a failed call writes nothing.
WriteErr == <<"write">>

after(wfail) == IF wfail = 0 THEN 0 ELSE wfail - 1

\* the scan of flush without the comparison with the next record
RECURSIVE flushLoop_nodedup(_, _, _, _)
flushLoop_nodedup(ents, i, t, wfail) ==
    IF i > Len(ents) THEN [tw |-> t, err |-> NoErr, wfail |-> wfail]
    ELSE IF wfail = 1 THEN [tw |-> t, err |-> WriteErr, wfail |-> 0]
    ELSE flushLoop_nodedup(ents, i + 1, tempWriter_Encode(t, ents[i]), after(wfail))

\* the scan of Sorter.flush; it returns at the first Encode that fails
RECURSIVE flushLoop(_, _, _, _)
flushLoop(ents, i, t, wfail) ==
    IF i > Len(ents) THEN [tw |-> t, err |-> NoErr, wfail |-> wfail]
    ELSE IF i + 1 <= Len(ents) /\ dedup(Key(ents[i]), Key(ents[i + 1]))
         THEN flushLoop(ents, i + 1, t, wfail)
         ELSE IF wfail = 1 THEN [tw |-> t, err |-> WriteErr, wfail |-> 0]
         ELSE flushLoop(ents, i + 1, tempWriter_Encode(t, ents[i]), after(wfail))

\* the part of flush after the temporary file exists: opt.Sort leaves the
\* buffer as sorted, the scan, Flush, and Reset when nothing failed
flushTail(s, t0, ents, sorted, wfail) ==
    LET l == flushLoop(ents, 1, t0, wfail)
    IN  IF l.err # NoErr
        THEN [buf |-> [s.buf EXCEPT !.ents = sorted], tw |-> l.tw, err |-> l.err]
        ELSE IF l.wfail = 1
             THEN [buf |-> [s.buf EXCEPT !.ents = sorted], tw |-> l.tw, err |-> WriteErr]
             ELSE [buf |-> memBuffer_Reset(s.buf), tw |-> tempWriter_Flush(l.tw),
                   err |-> NoErr]

\* flush without the call of opt.Sort: the buffer is encoded as inserted
Sorter_flush_unsorted(s, sorted, wfail) ==
    IF ~s.tw.created /\ wfail = 1
    THEN [buf |-> s.buf, tw |-> s.tw, err |-> WriteErr]
    ELSE IF s.tw.created
         THEN flushTail(s, s.tw, s.buf.ents, s.buf.ents, wfail)
         ELSE flushTail(s, newTempWriter, s.buf.ents, s.buf.ents, after(wfail))

\* flush that opens a new temporary file every time
Sorter_flush_newfile(s, sorted, wfail) ==
    IF wfail = 1
    THEN [buf |-> s.buf, tw |-> s.tw, err |-> WriteErr]
    ELSE flushTail(s, newTempWriter, sorted, sorted, after(wfail))

\* flush that does not reset the buffer after the section is committed
Sorter_flush_noreset(s, sorted, wfail) ==
    LET t0 == IF s.tw.created THEN s.tw ELSE newTempWriter
        l == flushLoop(sorted, 1, t0, 0)
    IN  [buf |-> [s.buf EXCEPT !.ents = sorted], tw |-> tempWriter_Flush(l.tw),
         err |-> NoErr]

\* Sorter.flush; sorted is the buffer as opt.Sort leaves it
Sorter_flush(s, sorted, wfail) ==
    IF ~s.tw.created /\ wfail = 1
    THEN [buf |-> s.buf, tw |-> s.tw, err |-> WriteErr]
    ELSE IF s.tw.created
         THEN flushTail(s, s.tw, sorted, sorted, wfail)
         ELSE flushTail(s, newTempWriter, sorted, sorted, after(wfail))

\* Put that returns after the flush and drops the record
Sorter_Put_drop(s, key, value, sorted, wfail) ==
    LET sz == memBuffer_ByteSize(s.buf)
    IN  IF sz > 0 /\ sz + Len(key) + Len(value) > opt.BufferSize
        THEN Sorter_flush(s, sorted, wfail)
        ELSE [buf |-> memBuffer_Append(s.buf, key, value), tw |-> s.tw, err |-> NoErr]

\* Put that tests sz >= 0
Sorter_Put_ge(s, key, value, sorted, wfail) ==
    LET sz == memBuffer_ByteSize(s.buf)
        f == IF sz >= 0 /\ sz + Len(key) + Len(value) > opt.BufferSize
             THEN Sorter_flush(s, sorted, wfail)
             ELSE [buf |-> s.buf, tw |-> s.tw, err |-> NoErr]
    IN  IF f.err # NoErr THEN f
        ELSE [buf |-> memBuffer_Append(f.buf, key, value), tw |-> f.tw, err |-> NoErr]

\* Put that appends the record also when the flush failed
Sorter_Put_appendonerr(s, key, value, sorted, wfail) ==
    LET sz == memBuffer_ByteSize(s.buf)
        f == IF sz > 0 /\ sz + Len(key) + Len(value) > opt.BufferSize
             THEN Sorter_flush(s, sorted, wfail)
             ELSE [buf |-> s.buf, tw |-> s.tw, err |-> NoErr]
    IN  [buf |-> memBuffer_Append(f.buf, key, value), tw |-> f.tw, err |-> f.err]

\* Sorter.Put; the record is appended only when the flush did not fail
Sorter_Put(s, key, value, sorted, wfail) ==
    LET sz == memBuffer_ByteSize(s.buf)
        f == IF sz > 0 /\ sz + Len(key) + Len(value) > opt.BufferSize
             THEN Sorter_flush(s, sorted, wfail)
             ELSE [buf |-> s.buf, tw |-> s.tw, err |-> NoErr]
    IN  IF f.err # NoErr THEN f
        ELSE [buf |-> memBuffer_Append(f.buf, key, value), tw |-> f.tw, err |-> NoErr]

\* ------------------------------------------------------------- tempReader
newTempReader(offsets) ==
    [offsets |-> offsets,
     pos |-> [k \in 1..Len(offsets) |-> IF k = 1 THEN 0 ELSE offsets[k - 1]],
     closed |-> FALSE]

NumSections(tr) == Len(tr.offsets)

decodeEntry(frame) ==
    [data |-> SubSeq(frame.bytes, 1, frame.keyLen + frame.valLen),
     keyLen |-> frame.keyLen]

\* ReadNext(section): the next record of the section (ent = <<e>>), the
\* exhausted signal (ent = <<>>, no error), or a decode error (also when the
\* section's bytes are no longer in the file).
tempReader_ReadNext(tr, file, section, fail) ==
    IF fail
    THEN [tr |-> tr, ent |-> <<>>, err |-> <<"decode", section>>]
    ELSE IF tr.pos[section] < tr.offsets[section]
         THEN IF tr.pos[section] + 1 > Len(file)
              THEN [tr |-> tr, ent |-> <<>>, err |-> <<"decode", section>>]
              ELSE [tr |-> [tr EXCEPT !.pos[section] = @ + 1],
                    ent |-> <<decodeEntry(file[tr.pos[section] + 1])>>,
                    err |-> NoErr]
         ELSE [tr |-> tr, ent |-> <<>>, err |-> NoErr]

tempReader_Close(tr) == [tr EXCEPT !.closed = TRUE]

\* ---------------------------------------------------------------- minHeap
\* ordered by compare(Key); on a tie the lower section index comes first
heapLess(a, b) ==
    \/ compare(Key(a.ent), Key(b.ent)) < 0
    \/ compare(Key(a.ent), Key(b.ent)) = 0 /\ a.section < b.section

PushEntry(h, section, ent) ==
    LET item == [section |-> section, ent |-> ent]
        k == Cardinality({j \in 1..Len(h) : ~heapLess(item, h[j])})
    IN  SubSeq(h, 1, k) \o <<item>> \o SubSeq(h, k + 1, Len(h))

PopEntry(h) == [section |-> h[1].section, ent |-> h[1].ent, heap |-> Tail(h)]

\* --------------------------------------------------------------- Iterator
\* A pointer to an entry is <<>> (nil) or <<e>>.  pool.freed names the fields
\* whose record went back to the pool while the field still points to it;
\* pool.misuse records that such a record was released again or accessed.
NoIter ==
    [exists |-> FALSE, tr |-> newTempReader(<<>>), heap |-> <<>>,
     ent |-> <<>>, nextEnt |-> <<>>, err |-> NoErr, nextOK |-> FALSE,
     pool |-> [freed |-> {}, misuse |-> FALSE]]

\* entry.Release of the record the field slot points to
Release(i, slot) ==
    [i EXCEPT !.pool = [freed |-> @.freed \cup {slot},
                        misuse |-> @.misuse \/ slot \in @.freed]]

\* an access to the record the field slot points to
Access(i, slot) ==
    [i EXCEPT !.pool = [freed |-> @.freed, misuse |-> @.misuse \/ slot \in @.freed]]

Iterator_fillHeap(i, section, file, fail) ==
    LET r == tempReader_ReadNext(i.tr, file, section, fail)
    IN  IF r.err # NoErr
        THEN [it |-> [i EXCEPT !.tr = r.tr], err |-> r.err]
        ELSE IF r.ent # <<>>
             THEN [it |-> [i EXCEPT !.tr = r.tr,
                                    !.heap = PushEntry(i.heap, section, r.ent[1])],
                   err |-> NoErr]
             ELSE [it |-> [i EXCEPT !.tr = r.tr], err |-> NoErr]

\* next() that does not refill the heap from the popped section
Iterator_next_norefill(i, file, fail) ==
    IF i.err # NoErr THEN [it |-> i, ok |-> FALSE]
    ELSE IF Len(i.heap) = 0 THEN [it |-> i, ok |-> FALSE]
    ELSE LET p == PopEntry(i.heap)
         IN  [it |-> [i EXCEPT !.heap = p.heap, !.nextEnt = <<p.ent>>], ok |-> TRUE]

\* next() that reports true after it recorded the decode error
Iterator_next_errtrue(i, file, fail) ==
    IF i.err # NoErr THEN [it |-> i, ok |-> FALSE]
    ELSE IF Len(i.heap) = 0 THEN [it |-> i, ok |-> FALSE]
    ELSE LET p == PopEntry(i.heap)
             f == Iterator_fillHeap([i EXCEPT !.heap = p.heap], p.section, file, fail)
         IN  IF f.err # NoErr
             THEN [it |-> [f.it EXCEPT !.err = f.err], ok |-> TRUE]
             ELSE [it |-> [f.it EXCEPT !.nextEnt = <<p.ent>>], ok |-> TRUE]

\* next() that refills the heap from the first section, whichever was popped
Iterator_next_refillfirst(i, file, fail) ==
    IF i.err # NoErr THEN [it |-> i, ok |-> FALSE]
    ELSE IF Len(i.heap) = 0 THEN [it |-> i, ok |-> FALSE]
    ELSE LET p == PopEntry(i.heap)
             f == Iterator_fillHeap([i EXCEPT !.heap = p.heap], 1, file, fail)
         IN  IF f.err # NoErr
             THEN [it |-> [f.it EXCEPT !.err = f.err], ok |-> FALSE]
             ELSE [it |-> [f.it EXCEPT !.nextEnt = <<p.ent>>], ok |-> TRUE]

\* Iterator.next; on a decode error the popped record is released and
\* dropped, otherwise it replaces the lookahead, which is released
Iterator_next(i, file, fail) ==
    IF i.err # NoErr THEN [it |-> i, ok |-> FALSE]
    ELSE IF Len(i.heap) = 0 THEN [it |-> i, ok |-> FALSE]
    ELSE LET p == PopEntry(i.heap)
             f == Iterator_fillHeap([i EXCEPT !.heap = p.heap], p.section, file, fail)
             g == IF i.nextEnt # <<>> THEN Release(f.it, "nextEnt") ELSE f.it
         IN  IF f.err # NoErr
             THEN [it |-> [f.it EXCEPT !.err = f.err], ok |-> FALSE]
             ELSE [it |-> [g EXCEPT !.nextEnt = <<p.ent>>, !.pool.freed = @ \ {"nextEnt"}],
                   ok |-> TRUE]

\* the loop without the comparison of the current record and the lookahead
NextLoop_nodedupe(i, file, failAt) ==
    LET r == Iterator_next(i, file, failAt = 1)
    IN  IF r.ok
        THEN [it |-> r.it, ret |-> TRUE, panic |-> FALSE]
        ELSE [it |-> [r.it EXCEPT !.nextOK = FALSE], ret |-> TRUE, panic |-> FALSE]

\* the loop that skips a duplicate without copying it over the current record
RECURSIVE NextLoop_keepfirst(_, _, _)
NextLoop_keepfirst(i, file, failAt) ==
    LET r == Iterator_next(i, file, failAt = 1)
    IN  IF r.ok
        THEN IF dedup(Key(r.it.ent[1]), Key(r.it.nextEnt[1]))
             THEN NextLoop_keepfirst(r.it, file, failAt - 1)
             ELSE [it |-> r.it, ret |-> TRUE, panic |-> FALSE]
        ELSE [it |-> [r.it EXCEPT !.nextOK = FALSE], ret |-> TRUE, panic |-> FALSE]

\* the loop of Iterator.Next; the failAt-th call of next() meets a decode error
RECURSIVE NextLoop(_, _, _)
NextLoop(i, file, failAt) ==
    LET r == Iterator_next(i, file, failAt = 1)
    IN  IF r.ok
        THEN IF dedup(Key(r.it.ent[1]), Key(r.it.nextEnt[1]))
             THEN NextLoop([r.it EXCEPT !.ent = <<copyEntry(r.it.ent[1], r.it.nextEnt[1])>>],
                           file, failAt - 1)
             ELSE [it |-> r.it, ret |-> TRUE, panic |-> FALSE]
        ELSE [it |-> [r.it EXCEPT !.nextOK = FALSE], ret |-> TRUE, panic |-> FALSE]

\* Iterator.Next; copyEntry through a nil pointer is a nil dereference
Iterator_Next(i, file, failAt) ==
    IF ~i.nextOK THEN [it |-> i, ret |-> FALSE, panic |-> FALSE]
    ELSE IF i.ent = <<>> \/ i.nextEnt = <<>>
         THEN [it |-> i, ret |-> FALSE, panic |-> TRUE]
         ELSE LET a == Access(Access(i, "ent"), "nextEnt")
              IN  NextLoop([a EXCEPT !.ent = <<copyEntry(i.ent[1], i.nextEnt[1])>>],
                           file, failAt)

\* Iterator.Key and Iterator.Value; through a nil pointer a nil dereference
Iterator_Key(i) ==
    IF i.ent = <<>> THEN [it |-> i, panic |-> TRUE]
    ELSE [it |-> Access(i, "ent"), panic |-> FALSE]

\* Close that releases both records without testing them for nil
Iterator_Close_nonil(i) ==
    [it |-> [i EXCEPT !.nextEnt = <<>>, !.ent = <<>>, !.tr = tempReader_Close(i.tr)],
     panic |-> i.nextEnt = <<>> \/ i.ent = <<>>]

\* Close that releases both records and keeps the pointers to them
Iterator_Close_keepptr(i) ==
    LET i1 == IF i.nextEnt # <<>> THEN Release(i, "nextEnt") ELSE i
        i2 == IF i1.ent # <<>> THEN Release(i1, "ent") ELSE i1
    IN  [it |-> [i2 EXCEPT !.tr = tempReader_Close(i2.tr)], panic |-> FALSE]

\* Iterator.Close: each record still held is released and its pointer set
\* to nil
Iterator_Close(i) ==
    LET i1 == IF i.nextEnt # <<>>
              THEN [Release(i, "nextEnt") EXCEPT !.nextEnt = <<>>, !.pool.freed = @ \ {"nextEnt"}]
              ELSE i
        i2 == IF i1.ent # <<>>
              THEN [Release(i1, "ent") EXCEPT !.ent = <<>>, !.pool.freed = @ \ {"ent"}]
              ELSE i1
    IN  [it |-> [i2 EXCEPT !.tr = tempReader_Close(i2.tr)], panic |-> FALSE]

\* the priming loop of newIterator over the sections s..NumSections
RECURSIVE fillAll(_, _, _, _)
fillAll(i, s, file, failAt) ==
    IF s > NumSections(i.tr) THEN [it |-> i, err |-> NoErr]
    ELSE LET f == Iterator_fillHeap(i, s, file, failAt = s)
         IN  IF f.err # NoErr
             THEN [it |-> [f.it EXCEPT !.tr = tempReader_Close(f.it.tr)], err |-> f.err]
             ELSE fillAll(f.it, s + 1, file, failAt)

newIterator(file, offsets, failAt) ==
    LET i0 == [exists |-> TRUE, tr |-> newTempReader(offsets), heap |-> <<>>,
               ent |-> <<fetchEntry>>, nextEnt |-> <<>>, err |-> NoErr,
               nextOK |-> FALSE, pool |-> [freed |-> {}, misuse |-> FALSE]]
        r == fillAll(i0, 1, file, failAt)
    IN  IF r.err # NoErr
        THEN [it |-> NoIter, err |-> r.err]
        ELSE LET n == Iterator_next(r.it, file, failAt = Len(offsets) + 1)
             IN  [it |-> [n.it EXCEPT !.nextOK = n.ok], err |-> NoErr]

\* Sort that skips the flush of an empty buffer
Sorter_Sort_skipempty(s, sorted, failAt, wfail) ==
    LET f == IF Len(s.buf.ents) = 0
             THEN [buf |-> s.buf, tw |-> s.tw, err |-> NoErr]
             ELSE Sorter_flush(s, sorted, wfail)
        r == newIterator(f.tw.file, f.tw.offsets, failAt)
    IN  IF f.err # NoErr
        THEN [buf |-> f.buf, tw |-> f.tw, it |-> NoIter, err |-> f.err]
        ELSE [buf |-> memBuffer_Free(f.buf), tw |-> f.tw, it |-> r.it, err |-> r.err]

\* Sort that builds the iterator before it flushes the buffer
Sorter_Sort_readfirst(s, sorted, failAt, wfail) ==
    LET f == Sorter_flush(s, sorted, wfail)
        r == newIterator(s.tw.file, s.tw.offsets, failAt)
    IN  IF f.err # NoErr
        THEN [buf |-> f.buf, tw |-> f.tw, it |-> NoIter, err |-> f.err]
        ELSE [buf |-> memBuffer_Free(f.buf), tw |-> f.tw, it |-> r.it, err |-> r.err]

\* Sorter.Sort: flush, then Free, then the iterator over the committed
\* sections; a failed flush returns its error
Sorter_Sort(s, sorted, failAt, wfail) ==
    LET f == Sorter_flush(s, sorted, wfail)
        r == newIterator(f.tw.file, f.tw.offsets, failAt)
    IN  IF f.err # NoErr
        THEN [buf |-> f.buf, tw |-> f.tw, it |-> NoIter, err |-> f.err]
        ELSE [buf |-> memBuffer_Free(f.buf), tw |-> f.tw, it |-> r.it, err |-> r.err]

\* ------------------------------------------------------- observed records
\* what the caller reads through Key() and Value()
Current(i) == Rec(Key(i.ent[1]), Val(i.ent[1]))

\* the records an iterator delivers from here on when no read fails
RECURSIVE Drain(_, _)
Drain(i, file) ==
    LET r == Iterator_Next(i, file, 0)
    IN  IF r.ret /\ ~r.panic THEN <<Current(r.it)>> \o Drain(r.it, file) ELSE <<>>

\* ---------------------------------------------------------- state machine
Init ==
    /\ opt \in [BufferSize : BufferSizes, Compare : CompareModes, Dedupe : DedupeModes]
    /\ buf = [ents |-> <<>>, size |-> 0]
    /\ tw = NoTempWriter
    /\ it = NoIter
    /\ fault = FALSE
    /\ puts = <<>>
    /\ itPuts = <<>>
    /\ out = <<>>
    /\ plan = <<>>
    /\ last = [op |-> "New", ret |-> "ok", flushed |-> FALSE, sorted |-> <<>>]
    /\ nSorts = 0
    /\ nFails = 0

\* the writer calls a flush of the buffer can make, and none
WriterCalls == 0..(Len(buf.ents) + 2)

\* Put(key, value), also Append(data) = Put(data, nil); the wfail-th call of
\* the writer fails (0: none).  puts lists the records Put accepted, nFails
\* counts the calls of Put that returned an error.
DoPut(wfails) ==
    /\ ~fault
    /\ Len(puts) + nFails < MaxPuts
    /\ \E sorted \in optSort(buf.ents), rec \in Records, wfail \in wfails :
       \E r \in {Sorter_Put([buf |-> buf, tw |-> tw], rec.key, rec.val, sorted, wfail)} :
         LET flushed == Len(r.tw.offsets) > Len(tw.offsets)
         IN  /\ buf' = r.buf
             /\ tw' = r.tw
             /\ puts' = IF r.err = NoErr THEN Append(puts, rec) ELSE puts
             /\ nFails' = IF r.err = NoErr THEN nFails ELSE nFails + 1
             /\ last' = [op |-> "Put", ret |-> IF r.err = NoErr THEN "ok" ELSE "err",
                         flushed |-> flushed,
                         sorted |-> IF flushed THEN sorted ELSE <<>>]
    /\ UNCHANGED <<opt, it, fault, itPuts, out, plan, nSorts>>

\* Sort(); the wfail-th call of the writer fails, the failAt-th read of the
\* priming meets a decode error (0: none); the caller keeps the first
\* iterator it obtains
DoSort(failures, wfails) ==
    /\ ~fault
    /\ nSorts < MaxSorts
    /\ \E sorted \in optSort(buf.ents), failAt \in failures, wfail \in wfails :
       \E r \in {Sorter_Sort([buf |-> buf, tw |-> tw], sorted, failAt, wfail)} :
         LET keep == ~it.exists /\ r.err = NoErr
             flushed == Len(r.tw.offsets) > Len(tw.offsets)
         IN  /\ buf' = r.buf
             /\ tw' = r.tw
             /\ it' = IF keep THEN r.it ELSE it
             /\ itPuts' = IF keep THEN puts ELSE itPuts
             /\ plan' = IF keep THEN Drain(r.it, r.tw.file) ELSE plan
             /\ last' = [op |-> "Sort", ret |-> IF r.err = NoErr THEN "ok" ELSE "err",
                         flushed |-> flushed,
                         sorted |-> IF flushed THEN sorted ELSE <<>>]
    /\ nSorts' = nSorts + 1
    /\ UNCHANGED <<opt, fault, puts, out, nFails>>

\* Iterator.Next() followed by Key()/Value() when it reports true
DoNext(failures) ==
    /\ ~fault
    /\ it.exists
    /\ \E failAt \in failures :
       \E r \in {Iterator_Next(it, tw.file, failAt)} :
             /\ it' = r.it
             /\ fault' = r.panic
             /\ out' = IF r.ret /\ ~r.panic THEN Append(out, Current(r.it)) ELSE out
             /\ last' = [op |-> "Next", ret |-> IF r.ret THEN "true" ELSE "false",
                         flushed |-> FALSE, sorted |-> <<>>]
    /\ UNCHANGED <<opt, buf, tw, puts, itPuts, plan, nSorts, nFails>>

\* The sort operation as the interface describes it: the records are put,
\* Sort() is called (again when it returned an error), then the iterator is
\* read and closed.  Any read of the temporary file may fail; the writes
\* succeed.
Put == ~it.exists /\ DoPut({0})

Sort == ~it.exists /\ DoSort(0..(Len(tw.offsets) + 2), {0})

IterNext == DoNext(0..Len(tw.file))

\* Iterator.Close()
IterClose ==
    /\ ~fault
    /\ it.exists
    /\ LET r == Iterator_Close(it)
       IN  /\ it' = r.it
           /\ fault' = r.panic
           /\ last' = [op |-> IF last.op \in {"Close", "Close2"} THEN "Close2" ELSE "Close",
                       ret |-> "ok", flushed |-> FALSE, sorted |-> <<>>]
    /\ UNCHANGED <<opt, buf, tw, puts, itPuts, out, plan, nSorts, nFails>>

Next == Put \/ Sort \/ IterNext \/ IterClose

Spec == Init /\ [][Next]_vars

\* Calls in any order: Put and Sort also while the first iterator is being
\* read; the reads and the writes of the temporary file succeed.
PutAnytime == DoPut({0})

SortAnytime == DoSort({0}, {0})

IterNextRead == DoNext({0})

NextLate == PutAnytime \/ SortAnytime \/ IterNextRead

SpecLate == Init /\ [][NextLate]_vars

\* The sort operation when a write of the temporary file may fail: Put and
\* Sort return the error, and the caller goes on with Put or Sort.  The reads
\* succeed.
PutIO == ~it.exists /\ DoPut(WriterCalls)

SortIO == ~it.exists /\ DoSort({0}, WriterCalls)

NextIO == PutIO \/ SortIO \/ IterNextRead

\* the comparator plays no part in what a failed write leaves behind
InitIO == Init /\ opt.Compare = "bytes"

SpecIO == InitIO /\ [][NextIO]_vars

\* Key() or Value() at any time after Sort
IterKey ==
    /\ ~fault
    /\ it.exists
    /\ LET r == Iterator_Key(it)
       IN  /\ it' = r.it
           /\ fault' = r.panic
           /\ last' = IF r.panic
                      THEN [op |-> "Key", ret |-> "ok", flushed |-> FALSE, sorted |-> <<>>]
                      ELSE last
    /\ UNCHANGED <<opt, buf, tw, puts, itPuts, out, plan, nSorts, nFails>>

\* The life of one iterator: Sort succeeds, then Next, Key, Value and Close
\* in any order; a read of the temporary file during Next may fail.
SortOnce == ~it.exists /\ DoSort({0}, {0})

NextIter == Put \/ SortOnce \/ IterNext \/ IterKey \/ IterClose

SpecIter == Init /\ [][NextIter]_vars

TypeOK ==
    /\ fault \in BOOLEAN
    /\ Len(puts) <= MaxPuts
    /\ nSorts <= MaxSorts
    /\ Len(puts) + nFails <= MaxPuts

\* ------------------------------------------------------------- properties
\* the iterator has delivered everything and met no error
Done == it.exists /\ ~it.nextOK /\ it.err = NoErr /\ ~fault

Count(seq, r) == Cardinality({i \in 1..Len(seq) : seq[i] = r})

CountKey(seq, k) == Cardinality({i \in 1..Len(seq) : seq[i].key = k})

KeysOf(seq) == {seq[i].key : i \in 1..Len(seq)}

\* the decoded records of committed section k of writer t
Section(t, k) ==
    LET lo == IF k = 1 THEN 0 ELSE t.offsets[k - 1]
    IN  [j \in 1..(t.offsets[k] - lo) |-> decodeEntry(t.file[lo + j])]

\* C1: the keys delivered by an error-free iteration are non-decreasing
\* under the configured comparator, for every threshold and section count.
C1_OutputSorted ==
    (it.exists /\ it.err = NoErr) =>
        \A i \in 1..(Len(out) - 1) : compare(out[i].key, out[i + 1].key) <= 0

\* three single-record sections, put in descending order, fully merged
C1_Witness ==
    /\ Done
    /\ Len(out) = 3
    /\ Len(it.tr.offsets) = 3
    /\ it.tr.offsets = <<1, 2, 3>>
    /\ compare(itPuts[1].key, itPuts[2].key) > 0
    /\ compare(itPuts[2].key, itPuts[3].key) > 0

\* C2: without an equality predicate an error-free iteration delivers
\* exactly the multiset of records that were put.
C2_Permutation ==
    (Done /\ opt.Dedupe = "nil") =>
        /\ Len(out) = Len(itPuts)
        /\ \A r \in Records : Count(out, r) = Count(itPuts, r)

\* a record put twice, spread over several sections, delivered twice
C2_Witness ==
    /\ Done
    /\ opt.Dedupe = "nil"
    /\ Len(out) = 3
    /\ Len(it.tr.offsets) >= 2
    /\ \E r \in Records : Count(itPuts, r) = 2 /\ Count(out, r) = 2

\* C3 as stated: with an equality predicate exactly one record of every
\* group of predicate-equal keys is delivered, whatever the comparator.
C3_OnePerGroup_AnyComparator ==
    (Done /\ opt.Dedupe # "nil") =>
        \A k \in KeysOf(itPuts) : CountKey(out, k) = 1

\* C3 amended: with an equality predicate and a comparator that ranks two
\* keys equal exactly when the predicate reports them equal, exactly one
\* record of every group of predicate-equal keys is delivered.
C3_OnePerGroup ==
    (Done /\ opt.Dedupe # "nil" /\ opt.Compare = "bytes") =>
        /\ \A k \in KeysOf(itPuts) : CountKey(out, k) = 1
        /\ KeysOf(out) = KeysOf(itPuts)

\* a key put three times, once per section, delivered once
C3_Witness ==
    /\ Done
    /\ opt.Dedupe # "nil"
    /\ opt.Compare = "bytes"
    /\ Len(it.tr.offsets) = 3
    /\ \E k \in KeysOf(itPuts) : CountKey(itPuts, k) = 3 /\ CountKey(out, k) = 1
    /\ it.tr.offsets = <<1, 2, 3>>

\* the last record put with the key of r
LastPut(seq, k) ==
    seq[CHOOSE i \in 1..Len(seq) :
            seq[i].key = k /\ \A j \in (i + 1)..Len(seq) : seq[j].key # k]

\* C4: with an equality predicate the record that survives a group of equal
\* keys is the one put last, in the same buffer or across sections.
C4_LastWriteWins ==
    (Done /\ opt.Dedupe # "nil" /\ opt.Compare = "bytes") =>
        \A i \in 1..Len(out) : out[i] = LastPut(itPuts, out[i].key)

DistinctUnderCompare(seq) ==
    \A i, j \in 1..Len(seq) : i # j => compare(seq[i].key, seq[j].key) # 0

\* the arrangement of seq in strictly increasing key order
SortedByKey(seq) ==
    CHOOSE s \in [1..Len(seq) -> {seq[i] : i \in 1..Len(seq)}] :
        \A i, j \in 1..Len(seq) : i < j => compare(s[i].key, s[j].key) < 0

\* C5: for records with pairwise distinct keys the delivered sequence is a
\* function of the records put alone: the same for every buffer threshold
\* and every split into sections.
C5_ThresholdIndependent ==
    (Done /\ DistinctUnderCompare(itPuts)) => out = SortedByKey(itPuts)

\* three distinct keys, each in a section of its own
C5_Witness ==
    /\ Done
    /\ DistinctUnderCompare(itPuts)
    /\ Len(itPuts) = 3
    /\ opt.BufferSize = 1
    /\ it.tr.offsets = <<1, 2, 3>>

\* C6: once a decode error is recorded, the error stays and every later
\* Next() reports false.
C6_ErrorSticky ==
    [][it.err # NoErr =>
          /\ it'.err = it.err
          /\ (last'.op = "Next" => last'.ret = "false")]_vars

\* an error met during a Next() that had delivered records, then Next() again
C6_Witness ==
    /\ it.exists
    /\ it.err # NoErr
    /\ Len(out) >= 1
    /\ last.op = "Next"
    /\ last.ret = "false"

\* C7: Close() after an error or after a Close() does not fault and leaves
\* the recorded error as it was.
C7_CloseSafe ==
    [][last'.op \in {"Close", "Close2"} => (~fault' /\ it'.err = it.err)]_vars

\* a second Close() of an iterator that recorded an error
C7_Witness ==
    /\ last.op = "Close2"
    /\ it.err # NoErr
    /\ ~fault

\* C8: Put or Sort after the first Sort does not fault and does not change
\* what the first iterator delivers: what it delivered so far followed by
\* what it still delivers is what it was going to deliver when it was built.
C8_LateCallsSafe ==
    /\ last.op \in {"Put", "Sort"} => ~fault
    /\ (it.exists /\ it.err = NoErr /\ ~it.tr.closed /\ ~fault) =>
           out \o Drain(it, tw.file) = plan

\* a Put after Sort and a second Sort that committed a section, then the
\* first iterator was read to its end
C8_Witness ==
    /\ Done
    /\ nSorts = 2
    /\ Len(puts) > Len(itPuts)
    /\ Len(tw.file) > Len(itPuts)
    /\ Len(out) = 2
    /\ out = plan

\* a step of Put, the record it was given and whether it committed a section
IsPutStep == Len(puts') = Len(puts) + 1

PutLen == Len(puts'[Len(puts')].key) + Len(puts'[Len(puts')].val)

PutEntry ==
    [data |-> puts'[Len(puts')].key \o puts'[Len(puts')].val,
     keyLen |-> Len(puts'[Len(puts')].key)]

PutEffect(flushes) ==
    IF flushes
    THEN /\ Len(tw'.offsets) = Len(tw.offsets) + 1
         /\ buf'.ents = <<PutEntry>>
    ELSE /\ tw' = tw
         /\ buf'.ents = Append(buf.ents, PutEntry)

\* C9 as stated: Put flushes exactly when the buffer holds a record and the
\* new record would take the byte size over the threshold.
C9_FlushIffNonEmpty ==
    [][IsPutStep =>
          PutEffect(Len(buf.ents) > 0 /\ buf.size + PutLen > opt.BufferSize)]_vars

\* C9 amended: Put flushes before appending exactly when the byte size of the
\* buffer is positive and the new record would take it over the threshold; a
\* buffer that holds only records of length 0 is not flushed.
C9_FlushIffBytes ==
    [][IsPutStep =>
          PutEffect(buf.size > 0 /\ buf.size + PutLen > opt.BufferSize)]_vars

\* a Put that flushed, and the buffer now holds only the new record
C9_Witness ==
    /\ last.op = "Put"
    /\ last.flushed
    /\ Len(buf.ents) = 1
    /\ Len(tw.offsets) >= 1

\* the last record of every run of adjacent duplicates of s
KeepLastOfRuns(s) ==
    LET keep == {i \in 1..Len(s) :
                    i = Len(s) \/ ~dedup(Key(s[i]), Key(s[i + 1]))}
        idx(n) == CHOOSE i \in keep : Cardinality({j \in keep : j < i}) = n - 1
    IN  [n \in 1..Cardinality(keep) |-> s[idx(n)]]

\* C10: every committed section is non-decreasing under the comparator and
\* has no two adjacent records equal under the predicate, and the section a
\* flush commits holds the last record of every run of adjacent duplicates
\* of the sorted buffer.
C10_SectionInvariant ==
    /\ \A k \in 1..Len(tw.offsets) :
          LET sec == Section(tw, k)
          IN  /\ IsSortedEnts(sec)
              /\ \A i \in 1..(Len(sec) - 1) : ~dedup(Key(sec[i]), Key(sec[i + 1]))
    /\ last.flushed =>
          Section(tw, Len(tw.offsets)) = KeepLastOfRuns(last.sorted)

\* a flush of a buffer with two records of one key committed one of them
C10_Witness ==
    /\ last.flushed
    /\ opt.Dedupe # "nil"
    /\ Len(last.sorted) = 3
    /\ Len(Section(tw, Len(tw.offsets))) = 2

\* the sections the iterator reads, by index
IterSections == 1..Len(it.tr.offsets)

IterSection(k) == Section([file |-> tw.file, offsets |-> it.tr.offsets], k)

\* the record with key k in the highest-index section that holds the key
HighestSectionRecord(k) ==
    LET holds(sec) == \E j \in 1..Len(IterSection(sec)) : Key(IterSection(sec)[j]) = k
        top == CHOOSE sec \in IterSections :
                   holds(sec) /\ \A t \in IterSections : holds(t) => t <= sec
        e == IterSection(top)[CHOOSE j \in 1..Len(IterSection(top)) :
                                  Key(IterSection(top)[j]) = k]
    IN  Rec(Key(e), Val(e))

\* C11: of two pending records whose keys compare equal the one of the
\* lower-index section leaves the heap first, so with an equality predicate
\* the record delivered for a key held by several sections is the one of the
\* highest-index section.
C11_LowerSectionFirst ==
    /\ \A a, b \in 1..Len(it.heap) :
          a < b => ~heapLess(it.heap[b], it.heap[a])
    /\ (Done /\ opt.Dedupe # "nil" /\ opt.Compare = "bytes") =>
          \A i \in 1..Len(out) : out[i] = HighestSectionRecord(out[i].key)

\* one key held by two sections with different values; the value of the
\* later section was delivered
C11_Witness ==
    /\ Done
    /\ opt.Dedupe # "nil"
    /\ opt.Compare = "bytes"
    /\ \E a, b \in IterSections :
          /\ a < b
          /\ \E x \in 1..Len(IterSection(a)), y \in 1..Len(IterSection(b)) :
                /\ Key(IterSection(a)[x]) = Key(IterSection(b)[y])
                /\ Val(IterSection(a)[x]) # Val(IterSection(b)[y])
                /\ \E i \in 1..Len(out) :
                      out[i] = Rec(Key(IterSection(b)[y]), Val(IterSection(b)[y]))

\* C12: a section whose Encode or Flush failed is never read back, also when
\* the caller goes on with a Put or Sort that flushes: no record is delivered
\* more often than Put accepted it.
C12_NoPartialReadBack ==
    Done => \A r \in Records : Count(out, r) <= Count(itPuts, r)

\* C13 as stated: once Sort has built an iterator, no record is encoded and
\* no section is committed, whatever calls follow.
C13_NoWriteAfterRead ==
    [][it.exists => tw' = tw]_vars

\* C13 amended: Sort flushes before it builds the iterator, so the iterator
\* is built over every section committed so far, and Next never writes the
\* temporary file; records are encoded after the first read only by a Put or
\* Sort the caller issues after Sort returned the iterator.
C13_WriteThenRead ==
    [][/\ (~it.exists /\ it'.exists) => it'.tr.offsets = tw'.offsets
       /\ (it.exists /\ tw' # tw) => last'.op \in {"Put", "Sort"}
       /\ last'.op = "Next" => tw' = tw]_vars

\* a Put after the first read that committed a section the iterator does
\* not read
C13_Witness ==
    /\ it.exists
    /\ Len(out) >= 1
    /\ last.op = "Put"
    /\ last.flushed
    /\ Len(tw.offsets) > Len(it.tr.offsets)

\* C14: over every sequence of Next, Key, Value and Close on an iterator,
\* with decode errors and repeated Close, no record is returned to the pool
\* twice and none is accessed after it was returned.
C14_PoolDiscipline ==
    /\ ~it.pool.misuse
    /\ it.pool.freed = {}

\* records were delivered, a Next met a decode error and released the popped
\* record, then Close ran twice
C14_Witness ==
    /\ last.op = "Close2"
    /\ it.err # NoErr
    /\ Len(out) >= 1
    /\ it.ent = <<>>
    /\ it.nextEnt = <<>>
    /\ ~it.pool.misuse

\* C15: Sort always flushes, also an empty buffer: every call of Sort commits
\* a section and a Sort that returns no error returns an iterator; the
\* iterator of a Sorter that never received a Put reports false at the first
\* Next and no error; empty sections add no record to the merge.
C15_SortAlwaysFlushes ==
    /\ last.op = "Sort" => (last.flushed /\ Len(tw.offsets) >= nSorts)
    /\ (last.op = "Sort" /\ last.ret = "ok") => it.exists
    /\ (it.exists /\ itPuts = <<>>) =>
          /\ ~it.nextOK
          /\ it.err = NoErr
          /\ out = <<>>
          /\ last.op = "Next" => last.ret = "false"
    /\ (Done /\ opt.Dedupe = "nil") => Len(out) = Len(tw.file)

\* Sort of a Sorter that never received a Put, then Next
C15_Witness ==
    /\ it.exists
    /\ puts = <<>>
    /\ tw.offsets = <<0>>
    /\ last.op = "Next"
    /\ last.ret = "false"
    /\ it.err = NoErr
    /\ ~fault

\* C16: Next reports true at most as often as records were put, and once it
\* reported false it reports false at every later call.
C16_Terminates ==
    [][/\ Len(out') <= Len(itPuts')
       /\ (it.exists /\ ~it.nextOK) =>
             /\ ~it'.nextOK
             /\ last'.op = "Next" => (last'.ret = "false" /\ out' = out)
       /\ (last'.op = "Next" /\ last'.ret = "false" /\ ~fault') => ~it'.nextOK]_vars

\* three records delivered, then Next reported false twice
C16_Witness ==
    /\ Done
    /\ Len(itPuts) = 3
    /\ Len(out) = 3
    /\ last.op = "Next"
    /\ last.ret = "false"
    /\ ~it.tr.closed

\* C17: between operations the heap holds at most one pending record per
\* section, and a section is read again only in a step that pops its pending
\* record.
C17_OnePerSection ==
    [][/\ \A a, b \in 1..Len(it'.heap) :
             a # b => it'.heap[a].section # it'.heap[b].section
       /\ it.exists =>
             \A sec \in 1..Len(it.tr.offsets) :
                 it'.tr.pos[sec] # it.tr.pos[sec] =>
                     \E j \in 1..Len(it.heap) : it.heap[j].section = sec]_vars

\* the first section holds two records; its first record was popped and the
\* refill put its second record into the heap beside the one of section 2
C17_Witness ==
    /\ it.exists
    /\ Len(it.tr.offsets) = 2
    /\ it.tr.pos[1] = 2
    /\ Len(it.heap) = 2
    /\ it.nextOK
    /\ it.err = NoErr

\* C18: the records delivered before a decode error was recorded are a
\* prefix of what the iteration delivers when no read fails; the record the
\* failing Next exposes is the survivor of its group of equal keys.
C18_PrefixBeforeError ==
    it.exists =>
        /\ Len(out) <= Len(plan)
        /\ \A i \in 1..Len(out) : out[i] = plan[i]

\* C19: after Close, Next reports false and does not fault, whatever the
\* iterator still held when it was closed.
C19_NextAfterClose ==
    [][(it.tr.closed /\ last'.op = "Next") => (~fault' /\ last'.ret = "false")]_vars

\* the number of times entry e is held in the sequence ents
Held(ents, e) == Cardinality({i \in 1..Len(ents) : ents[i] = e})

\* C20: when the flush a Put triggers fails, Put returns the error, the
\* record is not added, and the buffer holds the multiset of records and the
\* byte size it held before.
C20_FailedPutKeepsBuffer ==
    [][(/\ last'.op = "Put"
        /\ \/ nFails' # nFails
           \/ tw' # tw /\ Len(tw'.offsets) = Len(tw.offsets)) =>
          /\ last'.ret = "err"
          /\ puts' = puts
          /\ buf'.size = buf.size
          /\ Len(buf'.ents) = Len(buf.ents)
          /\ \A i \in 1..Len(buf.ents) :
                Held(buf'.ents, buf.ents[i]) = Held(buf.ents, buf.ents[i])]_vars

\* a Put failed after its flush had encoded a record of a buffer of two
C20_Witness ==
    /\ last.op = "Put"
    /\ last.ret = "err"
    /\ nFails = 1
    /\ Len(buf.ents) = 2
    /\ Len(tw.file) = 1
    /\ tw.offsets = <<>>

====
